---- MODULE Spec2Model ----
(***************************************************************************)
(* A model of ngsutils' "bamutils filter" (src/ngsutils/bam/filter.py) and *)
(* "bamutils tag" (src/ngsutils/bam/tag.py).                               *)
(*                                                                         *)
(* The code is Python 2: "/" on integers is floor division, None compares  *)
(* lower than every other object, and an attribute that was never set      *)
(* raises AttributeError when it is read or called.                        *)
(***************************************************************************)
EXTENDS Integers, Sequences, FiniteSets, TLC

----------------------------------------------------------------------------
(* Bounds of the model.                                                    *)

\* longest criteria list given on the command line
MaxCriteria == 2
\* longest input stream
MaxReads == 2
\* coordinates are k * (BIN / 2) for k in 0..MaxCoord
MaxCoord == 3
\* longest BED file (in lines)
MaxRegions == 2
\* largest literal / tag value / mismatch bound
MaxValue == 2
\* longest list of variations carried by one read
MaxVars == 2
\* longest read sequence / largest length bound of -minlen and -maxlen
MaxLen == 8

(* Program constants.                                                      *)

\* the bin width of ExcludeBED's index
BIN == 100000

----------------------------------------------------------------------------
(* Python values and helpers.                                              *)

\* a Python object that is either None or an int
None == [t |-> "none", v |-> 0]
PyInt(n) == [t |-> "int", v |-> n]

\* Python 2 ordering of two objects that are None or int: None sorts first
py_lt(a, b) ==
    IF a.t = "int" /\ b.t = "int" THEN a.v < b.v
    ELSE a.t = "none" /\ b.t # "none"

py_eq(a, b) == a = b

py_le(a, b) == py_lt(a, b) \/ py_eq(a, b)

\* a & b on non-negative integers
RECURSIVE BitAnd(_, _)
BitAnd(a, b) ==
    IF a = 0 \/ b = 0 THEN 0
    ELSE (a % 2) * (b % 2) + 2 * BitAnd(a \div 2, b \div 2)

\* '' if num == 1 else 'es'
Plural(num) == IF num = 1 THEN "" ELSE "es"

\* a file name is the list of its path components
RECURSIVE PathString(_)
PathString(p) ==
    IF Len(p) = 1 THEN p[1] ELSE p[1] \o "/" \o PathString(Tail(p))

\* os.path.basename
basename(p) == p[Len(p)]

\* the value of a __repr__ call: a string, or AttributeError
Rendered(s) == [raises |-> FALSE, s |-> s]
AttributeError == [raises |-> TRUE, s |-> "AttributeError"]

----------------------------------------------------------------------------
(* Reads (pysam AlignedRead) and the BAM header.                           *)

\* the SAM flag bits pysam decodes
FlagBit == [paired |-> 1, unmapped |-> 4, mate_unmapped |-> 8,
            reverse |-> 16, secondary |-> 256, qcfail |-> 512]

is_paired(read) == BitAnd(read.flag, FlagBit.paired) # 0
is_unmapped(read) == BitAnd(read.flag, FlagBit.unmapped) # 0
mate_is_unmapped(read) == BitAnd(read.flag, FlagBit.mate_unmapped) # 0
is_reverse(read) == BitAnd(read.flag, FlagBit.reverse) # 0
is_secondary(read) == BitAnd(read.flag, FlagBit.secondary) # 0
is_qcfail(read) == BitAnd(read.flag, FlagBit.qcfail) # 0

\* the reference names of the BAM header, by reference index
RefNames == <<"chr1", "chr2">>
getrname(rname) == RefNames[rname + 1]

\* one read object; id is the object's identity (its place in the stream)
Read(id, qname, flag, rname, pos, aend, seqlen, mapq, tags, vars) ==
    [id |-> id, qname |-> qname, flag |-> flag, rname |-> rname, pos |-> pos,
     aend |-> aend, seqlen |-> seqlen, mapq |-> mapq, tags |-> tags,
     vars |-> vars]

\* read == other. The comparison is the read class's, which the BAM library
\* defines: it compares the records' content (content = TRUE) or it is the
\* default comparison of objects, their identity (content = FALSE).
AlignedRead_eq(a, b, content) ==
    IF content THEN [a EXCEPT !.id = 0] = [b EXCEPT !.id = 0]
    ELSE a.id = b.id

\* the names of the tags a read carries
TagNames(read) == {read.tags[i][1] : i \in 1..Len(read.tags)}

\* the values of the ZS tags of a read, in order
RECURSIVE TagValues(_, _)
TagValues(tags, name) ==
    IF tags = <<>> THEN <<>>
    ELSE IF Head(tags)[1] = name
         THEN <<Head(tags)[2]>> \o TagValues(Tail(tags), name)
         ELSE TagValues(Tail(tags), name)

----------------------------------------------------------------------------
(* The criteria, in the order of the source.                               *)

\* a filter call's outcome: the verdict, the read (its tags may have grown)
\* and IncludeRegion._last
Outcome(ok, read, last) == [ok |-> ok, read |-> read, last |-> last]

(* Blacklist / Whitelist *)
Blacklist_init(fname, names) ==
    [kind |-> "Blacklist", fname |-> fname, notallowed |-> names]
Blacklist_filter(c, read) ==
    ~(\E i \in 1..Len(c.notallowed) : c.notallowed[i] = read.qname)
Blacklist_repr(c) == Rendered("Blacklist: " \o PathString(c.fname))

Whitelist_init(fname, names) ==
    [kind |-> "Whitelist", fname |-> fname, allowed |-> names]
Whitelist_filter(c, read) ==
    \E i \in 1..Len(c.allowed) : c.allowed[i] = read.qname
Whitelist_repr(c) == Rendered("Whitelist: " \o PathString(c.fname))

(* ExcludeRegion: region is "chrom:s-e" with a 1-based s *)
RegionString(chrom, s, e) == chrom \o ":" \o ToString(s) \o "-" \o ToString(e)

ExcludeRegion_init(chrom, s, e) ==
    [kind |-> "ExcludeRegion", region |-> RegionString(chrom, s, e),
     chrom |-> chrom, start |-> s - 1, end |-> e]

ExcludeRegion_filter(c, read) ==
    IF ~is_unmapped(read) /\ getrname(read.rname) = c.chrom
    THEN IF c.start <= read.pos /\ read.pos <= c.end THEN FALSE
         ELSE IF c.start <= read.aend /\ read.aend <= c.end THEN FALSE
         ELSE TRUE
    ELSE TRUE

ExcludeRegion_repr(c) == Rendered("Excluding: " \o c.region)

(* IncludeRegion: its state is the class-level _excludes and _last *)
IncludeRegion_init(chrom, s, e) == [kind |-> "IncludeRegion"]

\* what the constructor appends to IncludeRegion._excludes
IncludeRegion_init_excludes(excludes, chrom, s, e) ==
    Append(excludes, ExcludeRegion_init(chrom, s, e))

\* last is <<>> for None, or <<read>>
IncludeRegion_filter(excludes, last, read, content) ==
    IF last # <<>> /\ AlignedRead_eq(read, last[1], content)
    THEN [ok |-> TRUE, last |-> last]
    ELSE [ok |-> \E i \in 1..Len(excludes) :
                    ~ExcludeRegion_filter(excludes[i], read),
          last |-> <<read>>]

\* self.excl is never assigned (the assignment is commented out)
IncludeRegion_repr(c) == AttributeError

(* ExcludeBED: regions maps (chrom, bin) to a list of (start, end, strand) *)

\* the constructor's loop over the lines of the BED file, from line i on;
\* a line is [chrom, start, end, strand] with start <= end
RECURSIVE ExcludeBED_load(_, _, _, _)
ExcludeBED_load(lines, i, regions, binsize) ==
    IF i > Len(lines) THEN regions
    ELSE LET line == lines[i]
             startbin == line.start \div binsize
             endbin == line.end \div binsize
             keys == {<<line.chrom, b>> : b \in startbin..endbin}
             \* the for loop only creates the missing (empty) buckets
             created == [k \in (DOMAIN regions) \cup keys |->
                            IF k \in DOMAIN regions THEN regions[k] ELSE <<>>]
             \* the append comes after the loop: bin is the loop's last value
             bin == endbin
             appended == [created EXCEPT ![<<line.chrom, bin>>] =
                            Append(@, <<line.start, line.end, line.strand>>)]
         IN ExcludeBED_load(lines, i + 1, appended, binsize)

ExcludeBED_init_bin(fname, lines, binsize) ==
    [kind |-> "ExcludeBED", fname |-> fname,
     regions |-> ExcludeBED_load(lines, 1, <<>>, binsize)]

ExcludeBED_init(fname, lines) == ExcludeBED_init_bin(fname, lines, BIN)

\* the loop over one bucket, from entry i on
RECURSIVE ExcludeBED_scan(_, _, _)
ExcludeBED_scan(bucket, i, read) ==
    IF i > Len(bucket) THEN TRUE
    ELSE LET start == bucket[i][1]
             end == bucket[i][2]
             strand == bucket[i][3]
         IN IF strand = "+" /\ is_reverse(read)
            THEN ExcludeBED_scan(bucket, i + 1, read)
            ELSE IF strand = "-" /\ ~is_reverse(read)
            THEN ExcludeBED_scan(bucket, i + 1, read)
            ELSE IF start <= read.pos /\ read.pos <= end THEN FALSE
            ELSE IF start <= read.aend /\ read.aend <= end THEN FALSE
            ELSE ExcludeBED_scan(bucket, i + 1, read)

ExcludeBED_filter_bin(c, read, binsize) ==
    IF ~is_unmapped(read)
    THEN LET bin == read.pos \div binsize
             ref == getrname(read.rname)
         IN IF <<ref, bin>> \notin DOMAIN c.regions THEN TRUE
            ELSE ExcludeBED_scan(c.regions[<<ref, bin>>], 1, read)
    ELSE TRUE

ExcludeBED_filter(c, read) == ExcludeBED_filter_bin(c, read, BIN)

ExcludeBED_repr(c) == Rendered("Excluding from BED: " \o PathString(c.fname))

(* IncludeBED *)
IncludeBED_init(fname, lines) ==
    [kind |-> "IncludeBED", excl |-> ExcludeBED_init(fname, lines)]
IncludeBED_filter(c, read) == ~ExcludeBED_filter(c.excl, read)
IncludeBED_repr(c) ==
    Rendered("Including from BED: " \o PathString(c.excl.fname))

(* The mismatch criteria.  read.vars is the list of the read's variations  *)
(* [op, pos, seq], op 0 a substitution, 1 an insertion, 2 a deletion.      *)

\* ngsutils.bam.read_calc_mismatches: NM with every indel counted once
read_calc_mismatches(read) == Len(read.vars)
\* ngsutils.bam.read_calc_mismatches_ref: the same count, from the reference
read_calc_mismatches_ref(read) == Len(read.vars)
\* ngsutils.bam.read_calc_variations (from MD) and read_calc_mismatches_gen
\* (from the reference): the variations, in reference order
read_calc_variations(read) == read.vars
read_calc_mismatches_gen(read) == read.vars

\* DBSNP.is_valid_variation: a substitution matches an entry with its
\* allele, an indel matches any catalogued indel of its kind at the position
is_valid_variation(dbsnp, chrom, var) ==
    \E e \in dbsnp :
        /\ e.chrom = chrom /\ e.pos = var.pos /\ e.op = var.op
        /\ (var.op = 0 => e.seq = var.seq)

Mismatch_init(num) == [kind |-> "Mismatch", num |-> num]
Mismatch_filter(c, read) ==
    IF is_unmapped(read) THEN FALSE
    ELSE IF read_calc_mismatches(read) > c.num THEN FALSE
    ELSE TRUE
Mismatch_repr(c) ==
    Rendered(">" \o ToString(c.num) \o " mismatch" \o Plural(c.num))

MismatchRef_init(num, refname) ==
    [kind |-> "MismatchRef", num |-> num, refname |-> refname]
MismatchRef_filter(c, read) ==
    IF is_unmapped(read) THEN FALSE
    ELSE IF read_calc_mismatches_ref(read) > c.num THEN FALSE
    ELSE TRUE
MismatchRef_repr(c) ==
    Rendered(">" \o ToString(c.num) \o " mismatch" \o Plural(c.num)
             \o " in " \o basename(c.refname))

\* the loops that classify the variations: the number of them the catalog
\* does not hold (mm) and holds (snps)
CountMM(dbsnp, chrom, vars) ==
    Cardinality({i \in 1..Len(vars) : ~is_valid_variation(dbsnp, chrom, vars[i])})
CountSNPs(dbsnp, chrom, vars) ==
    Cardinality({i \in 1..Len(vars) : is_valid_variation(dbsnp, chrom, vars[i])})

\* read.tags = read.tags + [('ZS', snps)]
AddZS(read, snps) == [read EXCEPT !.tags = @ \o <<<<"ZS", snps>>>>]

MismatchDbSNP_init(num, fname, dbsnp) ==
    [kind |-> "MismatchDbSNP", num |-> num, fname |-> fname, dbsnp |-> dbsnp]

\* the verdict and the read after the call
MismatchDbSNP_filter(c, read) ==
    IF is_unmapped(read) THEN [ok |-> FALSE, read |-> read]
    ELSE IF read_calc_mismatches(read) <= c.num THEN [ok |-> TRUE, read |-> read]
    ELSE LET chrom == getrname(read.rname)
             mm == CountMM(c.dbsnp, chrom, read_calc_variations(read))
             snps == CountSNPs(c.dbsnp, chrom, read_calc_variations(read))
         IN IF mm > c.num THEN [ok |-> FALSE, read |-> read]
            ELSE IF snps # 0 THEN [ok |-> TRUE, read |-> AddZS(read, snps)]
            ELSE [ok |-> TRUE, read |-> read]

MismatchDbSNP_repr(c) ==
    Rendered(">" \o ToString(c.num) \o " mismatch" \o Plural(c.num)
             \o " using " \o basename(c.fname))

\* the constructor keeps refname, ref and dbsnp, but not dbsnpname
MismatchRefDbSNP_init(num, refname, dbsnp) ==
    [kind |-> "MismatchRefDbSNP", num |-> num, refname |-> refname,
     dbsnp |-> dbsnp]

\* (a variant that appends the tag before it tests the bound)
MismatchRefDbSNP_filter_TagFirst(c, read) ==
    IF is_unmapped(read) THEN [ok |-> FALSE, read |-> read]
    ELSE LET chrom == getrname(read.rname)
             mm == CountMM(c.dbsnp, chrom, read_calc_mismatches_gen(read))
             snps == CountSNPs(c.dbsnp, chrom, read_calc_mismatches_gen(read))
             tagged == IF snps # 0 THEN AddZS(read, snps) ELSE read
         IN IF mm > c.num THEN [ok |-> FALSE, read |-> tagged]
            ELSE [ok |-> TRUE, read |-> tagged]

MismatchRefDbSNP_filter(c, read) ==
    IF is_unmapped(read) THEN [ok |-> FALSE, read |-> read]
    ELSE LET chrom == getrname(read.rname)
             mm == CountMM(c.dbsnp, chrom, read_calc_mismatches_gen(read))
             snps == CountSNPs(c.dbsnp, chrom, read_calc_mismatches_gen(read))
         IN IF mm > c.num THEN [ok |-> FALSE, read |-> read]
            ELSE IF snps # 0 THEN [ok |-> TRUE, read |-> AddZS(read, snps)]
            ELSE [ok |-> TRUE, read |-> read]

\* self.dbsnpname is never assigned
MismatchRefDbSNP_repr(c) == AttributeError

(* Mapped, MaskFlag, SecondaryFlag, ReadMinLength, ReadMaxLength, QCFailFlag *)
Mapped_init == [kind |-> "Mapped"]
Mapped_filter(read) ==
    IF is_paired(read) /\ (is_unmapped(read) \/ mate_is_unmapped(read)) THEN FALSE
    ELSE IF is_unmapped(read) THEN FALSE
    ELSE TRUE
Mapped_repr == Rendered("is mapped")

MaskFlag_init(value) == [kind |-> "MaskFlag", flag |-> value]
MaskFlag_filter(c, read) == BitAnd(read.flag, c.flag) = 0
MaskFlag_repr(c) == Rendered("Doesn't match flag: " \o ToString(c.flag))

SecondaryFlag_init == [kind |-> "SecondaryFlag"]
SecondaryFlag_filter(read) == ~is_secondary(read)
SecondaryFlag_repr == Rendered("no 0x100 (secondary) flag")

ReadMinLength_init(minval) == [kind |-> "ReadMinLength", minval |-> minval]
ReadMinLength_filter(c, read) == read.seqlen >= c.minval
ReadMinLength_repr(c) == Rendered("read length min: " \o ToString(c.minval))

ReadMaxLength_init(val) == [kind |-> "ReadMaxLength", val |-> val]
ReadMaxLength_filter(c, read) == read.seqlen < c.val
ReadMaxLength_repr(c) == Rendered("read length max: " \o ToString(c.val))

QCFailFlag_init == [kind |-> "QCFailFlag"]
QCFailFlag_filter(read) == ~is_qcfail(read)
QCFailFlag_repr == Rendered("no 0x200 (qcfail) flag")

(* The tag comparisons: kind is the class. The tag is given without a type *)
(* suffix and the literal is one int() accepts, so value is an int.        *)
TagOps == [TagLessThan |-> "<", TagLessThanEquals |-> "<=",
           TagGreaterThan |-> ">", TagGreaterThanEquals |-> ">=",
           TagEquals |-> "="]
TagKinds == DOMAIN TagOps

TagCompare_init(kind, tag, value) ==
    [kind |-> kind, tag |-> tag, value |-> PyInt(value)]

\* the first tag of that name, or None
RECURSIVE FirstTag(_, _)
FirstTag(tags, name) ==
    IF tags = <<>> THEN None
    ELSE IF Head(tags)[1] = name THEN PyInt(Head(tags)[2])
    ELSE FirstTag(Tail(tags), name)

get_value(c, read) ==
    IF c.tag = "MAPQ" THEN PyInt(read.mapq) ELSE FirstTag(read.tags, c.tag)

TagLessThan_filter(c, read) == py_lt(get_value(c, read), c.value)
TagLessThanEquals_filter(c, read) == py_le(get_value(c, read), c.value)
TagGreaterThan_filter(c, read) == py_lt(c.value, get_value(c, read))
TagGreaterThanEquals_filter(c, read) == py_le(c.value, get_value(c, read))
TagEquals_filter(c, read) == py_eq(get_value(c, read), c.value)

TagCompare_repr(c) ==
    Rendered(c.tag \o " " \o TagOps[c.kind] \o " " \o ToString(c.value.v))

(* criterion.filter(bamfile, read), by class *)
Filter(c, read, last, excludes, content) ==
    CASE c.kind = "Blacklist" -> Outcome(Blacklist_filter(c, read), read, last)
      [] c.kind = "Whitelist" -> Outcome(Whitelist_filter(c, read), read, last)
      [] c.kind = "IncludeRegion" ->
            LET r == IncludeRegion_filter(excludes, last, read, content)
            IN Outcome(r.ok, read, r.last)
      [] c.kind = "IncludeBED" -> Outcome(IncludeBED_filter(c, read), read, last)
      [] c.kind = "ExcludeRegion" -> Outcome(ExcludeRegion_filter(c, read), read, last)
      [] c.kind = "ExcludeBED" -> Outcome(ExcludeBED_filter(c, read), read, last)
      [] c.kind = "Mismatch" -> Outcome(Mismatch_filter(c, read), read, last)
      [] c.kind = "MismatchRef" -> Outcome(MismatchRef_filter(c, read), read, last)
      [] c.kind = "MismatchDbSNP" ->
            LET r == MismatchDbSNP_filter(c, read) IN Outcome(r.ok, r.read, last)
      [] c.kind = "MismatchRefDbSNP" ->
            LET r == MismatchRefDbSNP_filter(c, read) IN Outcome(r.ok, r.read, last)
      [] c.kind = "Mapped" -> Outcome(Mapped_filter(read), read, last)
      [] c.kind = "MaskFlag" -> Outcome(MaskFlag_filter(c, read), read, last)
      [] c.kind = "SecondaryFlag" -> Outcome(SecondaryFlag_filter(read), read, last)
      [] c.kind = "ReadMinLength" -> Outcome(ReadMinLength_filter(c, read), read, last)
      [] c.kind = "ReadMaxLength" -> Outcome(ReadMaxLength_filter(c, read), read, last)
      [] c.kind = "QCFailFlag" -> Outcome(QCFailFlag_filter(read), read, last)
      [] c.kind = "TagLessThan" -> Outcome(TagLessThan_filter(c, read), read, last)
      [] c.kind = "TagLessThanEquals" ->
            Outcome(TagLessThanEquals_filter(c, read), read, last)
      [] c.kind = "TagGreaterThan" -> Outcome(TagGreaterThan_filter(c, read), read, last)
      [] c.kind = "TagGreaterThanEquals" ->
            Outcome(TagGreaterThanEquals_filter(c, read), read, last)
      [] c.kind = "TagEquals" -> Outcome(TagEquals_filter(c, read), read, last)

(* '%s' % criterion, by class *)
Repr(c) ==
    CASE c.kind = "Blacklist" -> Blacklist_repr(c)
      [] c.kind = "Whitelist" -> Whitelist_repr(c)
      [] c.kind = "IncludeRegion" -> IncludeRegion_repr(c)
      [] c.kind = "IncludeBED" -> IncludeBED_repr(c)
      [] c.kind = "ExcludeRegion" -> ExcludeRegion_repr(c)
      [] c.kind = "ExcludeBED" -> ExcludeBED_repr(c)
      [] c.kind = "Mismatch" -> Mismatch_repr(c)
      [] c.kind = "MismatchRef" -> MismatchRef_repr(c)
      [] c.kind = "MismatchDbSNP" -> MismatchDbSNP_repr(c)
      [] c.kind = "MismatchRefDbSNP" -> MismatchRefDbSNP_repr(c)
      [] c.kind = "Mapped" -> Mapped_repr
      [] c.kind = "MaskFlag" -> MaskFlag_repr(c)
      [] c.kind = "SecondaryFlag" -> SecondaryFlag_repr
      [] c.kind = "ReadMinLength" -> ReadMinLength_repr(c)
      [] c.kind = "ReadMaxLength" -> ReadMaxLength_repr(c)
      [] c.kind = "QCFailFlag" -> QCFailFlag_repr
      [] c.kind \in TagKinds -> TagCompare_repr(c)

\* whether the class defines close(): every class but MismatchDbSNP
HasClose(c) == c.kind # "MismatchDbSNP"

----------------------------------------------------------------------------
(* The state.                                                              *)

VARIABLES
    \* bam_filter
    criteria,                \* the criteria, in the order of the command line
    IncludeRegion_excludes,  \* IncludeRegion._excludes (class level)
    IncludeRegion_last,      \* IncludeRegion._last (class level): <<>> or <<read>>
    pc,                      \* "start", "loop", "closing", "done", "error"
    err,                     \* where the exception that ended the run was
                             \* raised: "listing" (the verbose listing), "log"
                             \* (the failed log), "stream" (the input), "close",
                             \* or "" if none was
    failed_out,              \* the failed log: "None", or a file that is
                             \* "open" or "closed"
    reads,                   \* the records read from the input so far
    passed,
    failed,
    outfile,                 \* the records written to the output
    failed_log,              \* the lines of the failed log: <<qname, description>>
    closed,                  \* the criteria closed, by position, in order
    trace,                   \* per record read: the verdicts of the criteria
                             \* evaluated for it, and the read after them
    \* one criterion evaluated alone
    crit,                    \* the criterion and the file it was built from
    ev,                      \* <<>> or <<the last filter call>>
    \* bam_tag
    chain,                   \* the processors wrapped around the reader, the
                             \* innermost first
    tag_pc,                  \* "idle", "loop", "done", "usage", "error"
    bamfile,                 \* the records the reader has delivered so far
    outbam,                  \* the records written to the temporary file
    outfname                 \* <<>>, or <<the records of the renamed file>>

vars == <<criteria, IncludeRegion_excludes, IncludeRegion_last, pc, err,
          failed_out, reads, passed, failed, outfile, failed_log, closed,
          trace, crit, ev, chain, tag_pc, bamfile, outbam, outfname>>

tag_vars == <<chain, tag_pc, bamfile, outbam, outfname>>

pipeline_vars == <<criteria, IncludeRegion_excludes, IncludeRegion_last, pc,
                   err, failed_out, reads, passed, failed, outfile,
                   failed_log, closed, trace>>

----------------------------------------------------------------------------
(* The command line: -criterion args..., looked up in _criteria.           *)

\* the catalog the dbSNP criteria of the command line open
CliDbSNP == {[chrom |-> "chr1", pos |-> 60010, op |-> 0, seq |-> "A"]}
\* the BED file the BED criteria of the command line read
CliBED == <<[chrom |-> "chr1", start |-> 50000, end |-> 70000, strand |-> "+"]>>

CliArgs ==
    {<<"mapped">>, <<"noqcfail">>, <<"nosecondary">>, <<"mask", 16>>,
     <<"lt", "NM", 1>>, <<"gt", "NM", 0>>, <<"lte", "NM", 0>>,
     <<"gte", "MAPQ", 30>>, <<"eq", "NM", 1>>,
     <<"mismatch", 1>>, <<"mismatch_ref", 0, <<"genome", "ref.fa">>>>,
     <<"mismatch_dbsnp", 0, <<"genome", "dbsnp.txt.bgz">>>>,
     <<"mismatch_ref_dbsnp", 0, <<"genome", "ref.fa">>, <<"genome", "dbsnp.txt.bgz">>>>,
     <<"exclude", "chr1", 50001, 70000>>, <<"excludebed", <<"a.bed">>>>,
     <<"include", "chr1", 50001, 70000>>, <<"includebed", <<"a.bed">>>>,
     <<"whitelist", <<"lists", "names.txt">>>>,
     <<"blacklist", <<"lists", "names.txt">>>>,
     <<"length", 50>>, <<"minlen", 50>>, <<"maxlen", 50>>}

\* the name list whitelist and blacklist read
CliNames == <<"readA">>

\* _criteria[name](*args)
NewCriterion(a) ==
    CASE a[1] = "mapped" -> Mapped_init
      [] a[1] = "noqcfail" -> QCFailFlag_init
      [] a[1] = "nosecondary" -> SecondaryFlag_init
      [] a[1] = "mask" -> MaskFlag_init(a[2])
      [] a[1] = "lt" -> TagCompare_init("TagLessThan", a[2], a[3])
      [] a[1] = "gt" -> TagCompare_init("TagGreaterThan", a[2], a[3])
      [] a[1] = "lte" -> TagCompare_init("TagLessThanEquals", a[2], a[3])
      [] a[1] = "gte" -> TagCompare_init("TagGreaterThanEquals", a[2], a[3])
      [] a[1] = "eq" -> TagCompare_init("TagEquals", a[2], a[3])
      [] a[1] = "mismatch" -> Mismatch_init(a[2])
      [] a[1] = "mismatch_ref" -> MismatchRef_init(a[2], a[3])
      [] a[1] = "mismatch_dbsnp" -> MismatchDbSNP_init(a[2], a[3], CliDbSNP)
      [] a[1] = "mismatch_ref_dbsnp" -> MismatchRefDbSNP_init(a[2], a[3], CliDbSNP)
      [] a[1] = "exclude" -> ExcludeRegion_init(a[2], a[3], a[4])
      [] a[1] = "excludebed" -> ExcludeBED_init(a[2], CliBED)
      [] a[1] = "include" -> IncludeRegion_init(a[2], a[3], a[4])
      [] a[1] = "includebed" -> IncludeBED_init(a[2], CliBED)
      [] a[1] = "whitelist" -> Whitelist_init(a[2], CliNames)
      [] a[1] = "blacklist" -> Blacklist_init(a[2], CliNames)
      [] a[1] = "length" -> ReadMinLength_init(a[2])
      [] a[1] = "minlen" -> ReadMinLength_init(a[2])
      [] a[1] = "maxlen" -> ReadMaxLength_init(a[2])

\* the criteria list the main block builds from the arguments
Criteria(args) == [i \in 1..Len(args) |-> NewCriterion(args[i])]

\* IncludeRegion._excludes once the arguments args[i..] are constructed too
RECURSIVE Excludes(_, _, _)
Excludes(args, i, excludes) ==
    IF i > Len(args) THEN excludes
    ELSE IF args[i][1] = "include"
    THEN Excludes(args, i + 1,
             IncludeRegion_init_excludes(excludes, args[i][2], args[i][3], args[i][4]))
    ELSE Excludes(args, i + 1, excludes)

\* the command lines: 1..MaxCriteria criteria
CommandLines == UNION {[1..n -> CliArgs] : n \in 1..MaxCriteria}

\* the records the input can deliver (their id is set when they are read)
ReadPool ==
    {Read(0, "readA", 0, 0, 60000, 60050, 50, 30, <<<<"NM", 1>>>>,
          <<[op |-> 0, pos |-> 60010, seq |-> "A"]>>),
     Read(0, "readB", 4, -1, 0, 0, 36, 0, <<>>, <<>>),
     Read(0, "readC", 785, 1, 150000, 150051, 51, 0, <<>>,
          <<[op |-> 0, pos |-> 150020, seq |-> "T"]>>)}

----------------------------------------------------------------------------
(* bam_filter.                                                             *)

\* the criterion loop for one read, from criterion i on: whether the read
\* passed, the read and _last after it, and the verdicts returned
RECURSIVE RunCriteria(_, _, _, _, _, _, _)
RunCriteria(cs, excludes, i, read, last, verdicts, content) ==
    IF i > Len(cs)
    THEN [p |-> TRUE, read |-> read, last |-> last, verdicts |-> verdicts]
    ELSE LET r == Filter(cs[i], read, last, excludes, content)
             \* _last is a reference: it names the read the later criteria change
             l == IF r.last # <<>> /\ r.last[1].id = r.read.id
                  THEN <<r.read>> ELSE r.last
         IN IF ~r.ok
            THEN [p |-> FALSE, read |-> r.read, last |-> l,
                  verdicts |-> Append(verdicts, FALSE)]
            ELSE RunCriteria(cs, excludes, i + 1, r.read, l,
                             Append(verdicts, TRUE), content)

\* (a variant that counts every read as kept)
Count_PassedAlways(p, f, res) ==
    IF res.p THEN <<p + 1, f>> ELSE <<p + 1, f + 1>>

\* passed and failed after the read
Count(p, f, res) ==
    IF res.p THEN <<p + 1, f>> ELSE <<p, f + 1>>

\* (a variant that writes the read whatever the verdict)
Write_Unconditional(out, res) == Append(out, res.read)

\* outfile after the read
Write(out, res) == IF res.p THEN Append(out, res.read) ELSE out

\* the failed log after a line for the read and the criterion
LogLine(log, read, s) == Append(log, <<read.qname, s>>)

\* the set-up: the verbose listing renders every criterion
Start ==
    /\ pc = "start"
    /\ \E verbose \in BOOLEAN, failedfile \in BOOLEAN :
          IF verbose /\ \E i \in 1..Len(criteria) : Repr(criteria[i]).raises
          THEN /\ pc' = "error"
               /\ err' = "listing"
               /\ UNCHANGED failed_out
          ELSE /\ pc' = "loop"
               /\ failed_out' = IF failedfile THEN "open" ELSE "None"
               /\ UNCHANGED err
    /\ UNCHANGED <<criteria, IncludeRegion_excludes, IncludeRegion_last, reads,
                   passed, failed, outfile, failed_log, closed, trace, crit, ev, tag_vars>>

\* one turn of the loop over the input
ProcessRead ==
    /\ pc = "loop"
    /\ Len(reads) < MaxReads
    /\ \E record \in ReadPool, content \in BOOLEAN :
          LET read == [record EXCEPT !.id = Len(reads) + 1]
              res == RunCriteria(criteria, IncludeRegion_excludes, 1, read,
                                 IncludeRegion_last, <<>>, content)
              criterion == criteria[Len(res.verdicts)]
              logs == ~res.p /\ failed_out # "None"
              raises == logs /\ Repr(criterion).raises
              counts == Count(passed, failed, res)
          IN /\ reads' = Append(reads, read)
             /\ IncludeRegion_last' = res.last
             /\ trace' = Append(trace, [verdicts |-> res.verdicts,
                                        read |-> res.read])
             /\ passed' = counts[1]
             /\ failed' = counts[2]
             /\ failed_log' = IF logs /\ ~raises
                              THEN LogLine(failed_log, read, Repr(criterion).s)
                              ELSE failed_log
             /\ outfile' = IF raises THEN outfile ELSE Write(outfile, res)
             /\ pc' = IF raises THEN "error" ELSE "loop"
             /\ err' = IF raises THEN "log" ELSE err
    /\ UNCHANGED <<criteria, IncludeRegion_excludes, failed_out, closed, crit, ev, tag_vars>>

\* the input raises instead of delivering the next record
StreamError ==
    /\ pc = "loop"
    /\ pc' = "error"
    /\ err' = "stream"
    /\ UNCHANGED <<criteria, IncludeRegion_excludes, IncludeRegion_last,
                   failed_out, reads, passed, failed, outfile, failed_log,
                   closed, trace, crit, ev, tag_vars>>

\* the input is exhausted: the files are closed and the counts printed
EndOfStream ==
    /\ pc = "loop"
    /\ pc' = "closing"
    /\ failed_out' = IF failed_out # "None" THEN "closed" ELSE failed_out
    /\ UNCHANGED <<criteria, IncludeRegion_excludes, IncludeRegion_last, err,
                   reads, passed, failed, outfile, failed_log, closed, trace,
                   crit, ev, tag_vars>>

\* one turn of the loop that closes the criteria
CloseCriterion ==
    /\ pc = "closing"
    /\ LET i == Len(closed) + 1
       IN IF HasClose(criteria[i])
          THEN /\ closed' = Append(closed, i)
               /\ pc' = IF i = Len(criteria) THEN "done" ELSE "closing"
               /\ UNCHANGED err
          ELSE /\ pc' = "error"
               /\ err' = "close"
               /\ UNCHANGED closed
    /\ UNCHANGED <<criteria, IncludeRegion_excludes, IncludeRegion_last,
                   failed_out, reads, passed, failed, outfile, failed_log,
                   trace, crit, ev, tag_vars>>

NoCrit == [kind |-> "none"]

\* bam_tag is not running
NoTagRun ==
    /\ chain = <<>>
    /\ tag_pc = "idle"
    /\ bamfile = <<>>
    /\ outbam = <<>>
    /\ outfname = <<>>

Init ==
    /\ \E args \in CommandLines :
          /\ criteria = Criteria(args)
          /\ IncludeRegion_excludes = Excludes(args, 1, <<>>)
    /\ IncludeRegion_last = <<>>
    /\ pc = "start"
    /\ err = ""
    /\ failed_out = "None"
    /\ reads = <<>>
    /\ passed = 0
    /\ failed = 0
    /\ outfile = <<>>
    /\ failed_log = <<>>
    /\ closed = <<>>
    /\ trace = <<>>
    /\ crit = NoCrit
    /\ ev = <<>>
    /\ NoTagRun

Next == Start \/ ProcessRead \/ StreamError \/ EndOfStream \/ CloseCriterion

Spec == Init /\ [][Next]_vars

----------------------------------------------------------------------------
(* One criterion evaluated alone: the state is the criterion as built      *)
(* (crit) and its last filter call (ev).                                   *)

\* bam_filter is not running
Idle_filter ==
    /\ criteria = <<>>
    /\ IncludeRegion_excludes = <<>>
    /\ IncludeRegion_last = <<>>
    /\ pc = "idle"
    /\ err = ""
    /\ failed_out = "None"
    /\ reads = <<>>
    /\ passed = 0
    /\ failed = 0
    /\ outfile = <<>>
    /\ failed_log = <<>>
    /\ closed = <<>>
    /\ trace = <<>>

\* neither bam_filter nor bam_tag is running
Idle ==
    /\ Idle_filter
    /\ NoTagRun

\* the record of a filter call
Call(read, ok, after) == [read |-> read, ok |-> ok, after |-> after]

Coords == {k * (BIN \div 2) : k \in 0..MaxCoord}
Chroms == {RefNames[i] : i \in 1..Len(RefNames)}
Strands == {"+", "-", "."}

\* mapped reads of either strand on either reference, and an unmapped read
RegionReads ==
    {Read(1, "read1", flag, rname, pos, aend, 50, 30, <<>>, <<>>) :
        flag \in {0, FlagBit.reverse}, rname \in {0, 1},
        pos \in Coords, aend \in Coords}
    \cup {Read(1, "read1", FlagBit.unmapped, -1, 0, 0, 50, 0, <<>>, <<>>)}

MappedSpan(read) == is_unmapped(read) \/ read.pos < read.aend

(* ExcludeBED and IncludeBED *)
BedLines ==
    {l \in [chrom : Chroms, start : Coords, end : Coords, strand : Strands] :
        l.start <= l.end}
BedFiles == UNION {[1..n -> BedLines] : n \in 1..MaxRegions}

InitBED ==
    /\ Idle
    /\ \E lines \in BedFiles :
          \/ crit = [c |-> ExcludeBED_init(<<"a.bed">>, lines), lines |-> lines]
          \/ crit = [c |-> IncludeBED_init(<<"a.bed">>, lines), lines |-> lines]
    /\ ev = <<>>

CallExcludeBED ==
    /\ crit.c.kind = "ExcludeBED"
    /\ \E read \in RegionReads :
          /\ MappedSpan(read)
          /\ ev' = <<Call(read, ExcludeBED_filter(crit.c, read), read)>>
    /\ UNCHANGED <<pipeline_vars, crit, tag_vars>>

CallIncludeBED ==
    /\ crit.c.kind = "IncludeBED"
    /\ \E read \in RegionReads :
          /\ MappedSpan(read)
          /\ ev' = <<Call(read, IncludeBED_filter(crit.c, read), read)>>
    /\ UNCHANGED <<pipeline_vars, crit, tag_vars>>

NextBED == CallExcludeBED \/ CallIncludeBED

SpecBED == InitBED /\ [][NextBED]_vars

(* ExcludeRegion *)
RegionArgs ==
    {a \in [chrom : Chroms, s : {x + 1 : x \in Coords}, e : Coords] : a.s - 1 <= a.e}

InitRegion ==
    /\ Idle
    /\ \E a \in RegionArgs :
          crit = [c |-> ExcludeRegion_init(a.chrom, a.s, a.e), args |-> a]
    /\ ev = <<>>

CallExcludeRegion ==
    /\ crit.c.kind = "ExcludeRegion"
    /\ \E read \in RegionReads :
          /\ MappedSpan(read)
          /\ ev' = <<Call(read, ExcludeRegion_filter(crit.c, read), read)>>
    /\ UNCHANGED <<pipeline_vars, crit, tag_vars>>

NextRegion == CallExcludeRegion

SpecRegion == InitRegion /\ [][NextRegion]_vars

(* IncludeRegion: the instances built before the first call share          *)
(* IncludeRegion._excludes and IncludeRegion._last; ev keeps the last two  *)
(* calls, the latest first.                                                *)
\* the forward reads on the first reference, and the unmapped read
IncludeReads == {read \in RegionReads : ~is_reverse(read) /\ read.rname <= 0}

\* the objects a call can be given: the one last names, and any read as a
\* new object
IncludeReadObjects(last) ==
    IF last = <<>> THEN IncludeReads
    ELSE {last[1]} \cup {[read EXCEPT !.id = 3 - last[1].id] : read \in IncludeReads}

RECURSIVE IncludeRegion_build(_, _, _)
IncludeRegion_build(args, i, excludes) ==
    IF i > Len(args) THEN excludes
    ELSE IncludeRegion_build(args, i + 1,
            IncludeRegion_init_excludes(excludes, args[i].chrom, args[i].s,
                                        args[i].e))

InitIncludeRegion ==
    /\ criteria = <<>>
    /\ \E n \in 1..MaxRegions : \E args \in [1..n -> RegionArgs] :
          /\ IncludeRegion_excludes = IncludeRegion_build(args, 1, <<>>)
          /\ \E self \in 1..n :
                crit = [c |-> IncludeRegion_init(args[self].chrom,
                                                 args[self].s, args[self].e),
                        args |-> args, self |-> self]
    /\ IncludeRegion_last = <<>>
    /\ pc = "idle"
    /\ err = ""
    /\ failed_out = "None"
    /\ reads = <<>>
    /\ passed = 0
    /\ failed = 0
    /\ outfile = <<>>
    /\ failed_log = <<>>
    /\ closed = <<>>
    /\ trace = <<>>
    /\ ev = <<>>
    /\ NoTagRun

\* the read of a call is the object _last names, or another object (the
\* two objects in play are told apart by id 1 and 2)
CallIncludeRegion ==
    /\ crit.c.kind = "IncludeRegion"
    /\ \E read \in IncludeReadObjects(IncludeRegion_last), content \in BOOLEAN :
          /\ MappedSpan(read)
          /\ LET r == IncludeRegion_filter(IncludeRegion_excludes,
                                           IncludeRegion_last, read, content)
             IN /\ IncludeRegion_last' = r.last
                /\ ev' = <<Call(read, r.ok, read)>>
                            \o (IF ev = <<>> THEN <<>> ELSE <<ev[1]>>)
    /\ UNCHANGED <<criteria, IncludeRegion_excludes, pc, err, failed_out,
                   reads, passed, failed, outfile, failed_log, closed, trace,
                   crit, tag_vars>>

NextIncludeRegion == CallIncludeRegion

SpecIncludeRegion == InitIncludeRegion /\ [][NextIncludeRegion]_vars

(* The tag comparisons *)
TagValueSet == 0..MaxValue

\* reads that carry NM or not, before or after another tag
TagReads ==
    {Read(1, "read1", 0, 0, 100, 150, 50, mapq, tags, <<>>) :
        mapq \in TagValueSet,
        tags \in {<<>>}
                 \cup {<<<<n, v>>>> : n \in {"NM", "AS"}, v \in TagValueSet}
                 \cup {<<<<"AS", v>>, <<"NM", w>>>> : v \in {0}, w \in TagValueSet}}

InitTag ==
    /\ Idle
    /\ \E kind \in TagKinds, tag \in {"NM", "MAPQ"}, value \in TagValueSet :
          crit = [c |-> TagCompare_init(kind, tag, value)]
    /\ ev = <<>>

CallTagLessThan ==
    /\ crit.c.kind = "TagLessThan"
    /\ \E read \in TagReads :
          ev' = <<Call(read, TagLessThan_filter(crit.c, read), read)>>
    /\ UNCHANGED <<pipeline_vars, crit, tag_vars>>

CallTagLessThanEquals ==
    /\ crit.c.kind = "TagLessThanEquals"
    /\ \E read \in TagReads :
          ev' = <<Call(read, TagLessThanEquals_filter(crit.c, read), read)>>
    /\ UNCHANGED <<pipeline_vars, crit, tag_vars>>

CallTagGreaterThan ==
    /\ crit.c.kind = "TagGreaterThan"
    /\ \E read \in TagReads :
          ev' = <<Call(read, TagGreaterThan_filter(crit.c, read), read)>>
    /\ UNCHANGED <<pipeline_vars, crit, tag_vars>>

CallTagGreaterThanEquals ==
    /\ crit.c.kind = "TagGreaterThanEquals"
    /\ \E read \in TagReads :
          ev' = <<Call(read, TagGreaterThanEquals_filter(crit.c, read), read)>>
    /\ UNCHANGED <<pipeline_vars, crit, tag_vars>>

CallTagEquals ==
    /\ crit.c.kind = "TagEquals"
    /\ \E read \in TagReads :
          ev' = <<Call(read, TagEquals_filter(crit.c, read), read)>>
    /\ UNCHANGED <<pipeline_vars, crit, tag_vars>>

NextTag ==
    \/ CallTagLessThan
    \/ CallTagLessThanEquals
    \/ CallTagGreaterThan
    \/ CallTagGreaterThanEquals
    \/ CallTagEquals

SpecTag == InitTag /\ [][NextTag]_vars

(* The catalog-backed mismatch criteria *)
\* the variations a read can carry: two substitutions and an insertion
VarPool ==
    {[op |-> 0, pos |-> 110, seq |-> "A"], [op |-> 0, pos |-> 120, seq |-> "C"],
     [op |-> 1, pos |-> 130, seq |-> "GG"]}

\* what the catalog can hold: the first substitution, the second with
\* another allele, an insertion of another sequence at the insertion's place
CatalogPool ==
    {[chrom |-> "chr1", pos |-> 110, op |-> 0, seq |-> "A"],
     [chrom |-> "chr1", pos |-> 120, op |-> 0, seq |-> "G"],
     [chrom |-> "chr1", pos |-> 130, op |-> 1, seq |-> "T"]}

\* the lists of up to MaxVars variations, in reference order
VarLists ==
    {vs \in UNION {[1..n -> VarPool] : n \in 0..MaxVars} :
        \A i \in 1..(Len(vs) - 1) : vs[i].pos < vs[i + 1].pos}

MismatchReads ==
    {Read(1, "read1", flag, rname, 100, 150, 50, 30, <<<<"NM", Len(vs)>>>>, vs) :
        flag \in {0, FlagBit.reverse}, rname \in {0, 1}, vs \in VarLists}
    \cup {Read(1, "read1", FlagBit.unmapped, -1, 0, 0, 50, 0, <<>>, <<>>)}

InitMismatch ==
    /\ Idle
    /\ \E num \in 0..MaxValue, dbsnp \in SUBSET CatalogPool :
          \/ crit = [c |-> MismatchDbSNP_init(num, <<"dbsnp.txt.bgz">>, dbsnp)]
          \/ crit = [c |-> MismatchRefDbSNP_init(num, <<"ref.fa">>, dbsnp)]
    /\ ev = <<>>

CallMismatchDbSNP ==
    /\ crit.c.kind = "MismatchDbSNP"
    /\ \E read \in MismatchReads :
          LET r == MismatchDbSNP_filter(crit.c, read)
          IN ev' = <<Call(read, r.ok, r.read)>>
    /\ UNCHANGED <<pipeline_vars, crit, tag_vars>>

CallMismatchRefDbSNP ==
    /\ crit.c.kind = "MismatchRefDbSNP"
    /\ \E read \in MismatchReads :
          LET r == MismatchRefDbSNP_filter(crit.c, read)
          IN ev' = <<Call(read, r.ok, r.read)>>
    /\ UNCHANGED <<pipeline_vars, crit, tag_vars>>

NextMismatch == CallMismatchDbSNP \/ CallMismatchRefDbSNP

SpecMismatch == InitMismatch /\ [][NextMismatch]_vars

(* ReadMinLength and ReadMaxLength *)
LengthValues == -1..MaxLen

\* a mapped and an unmapped read of every sequence length
LengthReads ==
    {Read(1, "read1", flag, IF flag = 0 THEN 0 ELSE -1, 0,
          IF flag = 0 THEN n ELSE 0, n, 30, <<>>, <<>>) :
        flag \in {0, FlagBit.unmapped}, n \in 0..MaxLen}

InitLength ==
    /\ Idle
    /\ \E val \in LengthValues :
          \/ crit = [c |-> ReadMinLength_init(val)]
          \/ crit = [c |-> ReadMaxLength_init(val)]
    /\ ev = <<>>

CallReadMinLength ==
    /\ crit.c.kind = "ReadMinLength"
    /\ \E read \in LengthReads :
          ev' = <<Call(read, ReadMinLength_filter(crit.c, read), read)>>
    /\ UNCHANGED <<pipeline_vars, crit, tag_vars>>

CallReadMaxLength ==
    /\ crit.c.kind = "ReadMaxLength"
    /\ \E read \in LengthReads :
          ev' = <<Call(read, ReadMaxLength_filter(crit.c, read), read)>>
    /\ UNCHANGED <<pipeline_vars, crit, tag_vars>>

NextLength == CallReadMinLength \/ CallReadMaxLength

SpecLength == InitLength /\ [][NextLength]_vars

----------------------------------------------------------------------------
(* bam_tag (tag.py): the reader wrapped in the processors asked for.       *)

\* a -tag argument is the sequence of its fields between the colons, and
\* <<>> when the option is not given; a -suffix argument is a string, "" when
\* the option is not given
TagArgs ==
    {<<>>, <<"XX", "Z", "test">>, <<"NH", "i", "1">>, <<"NH", "I", "2">>,
     <<"YF", "f", "0">>, <<"XQ", "test">>, <<"ZA", "Z", "a", "b">>,
     <<"XX">>, <<"NH", "i", "x">>}
SuffixArgs == {"", "/1", "_2"}

\* s.lower(), for a field of one letter
lower(s) == CASE s = "I" -> "i" [] s = "F" -> "f" [] s = "Z" -> "z" [] OTHER -> s

\* int(s): the number a numeral stands for, ValueError for any other string
IsNumeral(s) == \E n \in 0..MaxValue : ToString(n) = s
int(s) == CHOOSE n \in 0..MaxValue : ToString(n) = s
float(s) == [t |-> "float", v |-> int(s)]

\* tag.rsplit(':', 1)
rsplit(tag) ==
    IF Len(tag) = 1 THEN <<tag>>
    ELSE <<SubSeq(tag, 1, Len(tag) - 1), tag[Len(tag)]>>

\* key[-2:].lower() == ':' + letter
KeyEndsWith(key, letter) == Len(key) >= 2 /\ lower(key[Len(key)]) = letter

Suffix_init(suffix) == [kind |-> "Suffix", suffix |-> suffix]

Suffix_filter(c, read) == [read EXCEPT !.qname = read.qname \o c.suffix]

\* raises is TRUE when spl[1] does not exist, or int / float rejects it
Tag_init(tag) ==
    LET spl == rsplit(tag)
    IN IF Len(spl) < 2 THEN [kind |-> "Tag", raises |-> TRUE]
       ELSE LET key == spl[1]
                typed == KeyEndsWith(key, "i") \/ KeyEndsWith(key, "f")
            IN IF typed /\ ~IsNumeral(spl[2])
               THEN [kind |-> "Tag", raises |-> TRUE]
               ELSE [kind |-> "Tag", raises |-> FALSE, key |-> key[1],
                     value |-> IF KeyEndsWith(key, "i") THEN int(spl[2])
                               ELSE IF KeyEndsWith(key, "f") THEN float(spl[2])
                               ELSE spl[2]]

Tag_filter(c, read) ==
    [read EXCEPT !.tags = read.tags \o <<<<c.key, c.value>>>>]

CufflinksXS_init == [kind |-> "CufflinksXS"]

\* (a variant that gives every read a strand tag)
CufflinksXS_filter_Unmapped(read) ==
    [read EXCEPT !.tags =
        Append(read.tags, <<"XS:A", IF is_reverse(read) THEN "-" ELSE "+">>)]

CufflinksXS_filter(read) ==
    [read EXCEPT !.tags =
        IF ~is_unmapped(read)
        THEN IF is_reverse(read) THEN Append(read.tags, <<"XS:A", "-">>)
             ELSE Append(read.tags, <<"XS:A", "+">>)
        ELSE read.tags]

\* the chain bam_tag builds around the reader, the innermost processor first
bam_tag_chain(suffix, xs, tag) ==
    (IF suffix # "" THEN <<Suffix_init(suffix)>> ELSE <<>>)
    \o (IF xs THEN <<CufflinksXS_init>> ELSE <<>>)
    \o (IF tag # <<>> THEN <<Tag_init(tag)>> ELSE <<>>)

\* what chain.filter() yields for a read the reader yields: the read after
\* the processors i.. of the chain
RECURSIVE chain_filter(_, _, _)
chain_filter(ch, i, read) ==
    IF i > Len(ch) THEN read
    ELSE chain_filter(ch, i + 1,
            CASE ch[i].kind = "Suffix" -> Suffix_filter(ch[i], read)
              [] ch[i].kind = "CufflinksXS" -> CufflinksXS_filter(read)
              [] ch[i].kind = "Tag" -> Tag_filter(ch[i], read))

\* bam_tag up to its loop: the chain is built, or Tag raised, or no
\* processor was asked for and usage() exits
InitBamTag ==
    /\ Idle_filter
    /\ crit = NoCrit
    /\ ev = <<>>
    /\ \E suffix \in SuffixArgs, xs \in BOOLEAN, tag \in TagArgs :
          IF tag # <<>> /\ Tag_init(tag).raises
          THEN chain = <<>> /\ tag_pc = "error"
          ELSE /\ chain = bam_tag_chain(suffix, xs, tag)
               /\ tag_pc = IF chain = <<>> THEN "usage" ELSE "loop"
    /\ bamfile = <<>>
    /\ outbam = <<>>
    /\ outfname = <<>>

\* one turn of the loop over chain.filter()
BamTagRead ==
    /\ tag_pc = "loop"
    /\ Len(bamfile) < MaxReads
    /\ \E content \in ReadPool :
          LET read == [content EXCEPT !.id = Len(bamfile) + 1]
          IN /\ bamfile' = Append(bamfile, read)
             /\ outbam' = Append(outbam, chain_filter(chain, 1, read))
    /\ UNCHANGED <<pipeline_vars, crit, ev, chain, tag_pc, outfname>>

\* the input raises instead of delivering the next record
BamTagStreamError ==
    /\ tag_pc = "loop"
    /\ tag_pc' = "error"
    /\ UNCHANGED <<pipeline_vars, crit, ev, chain, bamfile, outbam, outfname>>

\* the input is exhausted: the temporary file is closed and renamed
BamTagEndOfStream ==
    /\ tag_pc = "loop"
    /\ tag_pc' = "done"
    /\ outfname' = <<outbam>>
    /\ UNCHANGED <<pipeline_vars, crit, ev, chain, bamfile, outbam>>

NextBamTag == BamTagRead \/ BamTagStreamError \/ BamTagEndOfStream

SpecBamTag == InitBamTag /\ [][NextBamTag]_vars

----------------------------------------------------------------------------
(* The properties of bam_filter (specification Spec).                      *)

\* the position of the first FALSE of a list of verdicts, 0 if there is none
FirstFalse(v) ==
    IF \A i \in 1..Len(v) : v[i] THEN 0
    ELSE CHOOSE i \in 1..Len(v) : ~v[i] /\ \A j \in 1..(i - 1) : v[j]

\* the records read so far for which some criterion returned false
Rejected == {k \in 1..Len(trace) : FirstFalse(trace[k].verdicts) # 0}

\* the records read so far for which every criterion returned true
Accepted ==
    {k \in 1..Len(trace) :
        /\ FirstFalse(trace[k].verdicts) = 0
        /\ Len(trace[k].verdicts) = Len(criteria)}

\* the criteria that can append a ZS tag
AddsZS(c) == c.kind \in {"MismatchDbSNP", "MismatchRefDbSNP"}

NumZS(read) == Len(TagValues(read.tags, "ZS"))

\* the line of the failed log that belongs to rejected record k
LogIndex(k) == Cardinality({j \in Rejected : j <= k})

\* C1: a record for which some criterion returns false is not written, has
\* exactly one line in the failed log when one is configured, with the
\* description of the first failing criterion, and no criterion after the
\* first failing one is evaluated for it (it gets no ZS tag from a later one).
C1_FirstFailureShortCircuits ==
    \A k \in Rejected :
        LET v == trace[k].verdicts
            f == FirstFalse(v)
        IN /\ \A j \in 1..Len(outfile) : outfile[j].id # k
           /\ failed_out # "None" =>
                 /\ Len(failed_log) = Cardinality(Rejected)
                 /\ ~Repr(criteria[f]).raises
                 /\ failed_log[LogIndex(k)] = <<reads[k].qname, Repr(criteria[f]).s>>
           /\ Len(v) = f
           /\ NumZS(trace[k].read) <=
                 NumZS(reads[k]) + Cardinality({i \in 1..f : AddsZS(criteria[i])})

\* The same statement for the records whose first failing criterion has a
\* description that renders: it holds.
ShortCircuitWhenRendered ==
    \A k \in Rejected :
        LET v == trace[k].verdicts
            f == FirstFalse(v)
        IN /\ \A j \in 1..Len(outfile) : outfile[j].id # k
           /\ (failed_out # "None" /\ \A r \in Rejected :
                                ~Repr(criteria[FirstFalse(trace[r].verdicts)]).raises) =>
                 /\ Len(failed_log) = Cardinality(Rejected)
                 /\ failed_log[LogIndex(k)] = <<reads[k].qname, Repr(criteria[f]).s>>
           /\ Len(v) = f
           /\ NumZS(trace[k].read) <=
                 NumZS(reads[k]) + Cardinality({i \in 1..f : AddsZS(criteria[i])})

\* C2: after every record, passed + failed is the number of records read so
\* far, and each record read adds one to exactly one of the two counters.
C2_ExactAccounting ==
    /\ [](passed + failed = Len(reads))
    /\ [][/\ Len(reads') = Len(reads) + 1 =>
                \/ passed' = passed + 1 /\ failed' = failed
                \/ passed' = passed /\ failed' = failed + 1
          /\ Len(reads') = Len(reads) => passed' = passed /\ failed' = failed]_vars

\* a run that kept one record and rejected another
C2_Witness == Len(reads) = 2 /\ passed = 1 /\ failed = 1 /\ Len(criteria) = 2

\* C3: the output is the subsequence of the records read so far that passed
\* every criterion: each is there once, in input order, as soon as it was read
\* (at most its tag list has grown).
C3_OutputIsPassingSubsequence ==
    /\ {outfile[j].id : j \in 1..Len(outfile)} = Accepted
    /\ \A i, j \in 1..Len(outfile) : i < j => outfile[i].id < outfile[j].id
    /\ \A j \in 1..Len(outfile) :
          LET in == reads[outfile[j].id]
          IN /\ [outfile[j] EXCEPT !.tags = <<>>] = [in EXCEPT !.tags = <<>>]
             /\ SubSeq(outfile[j].tags, 1, Len(in.tags)) = in.tags

\* the first record was rejected and the second written, with a ZS tag more
C3_Witness ==
    /\ Len(reads) = 2
    /\ Accepted = {2}
    /\ Len(outfile) = 1
    /\ NumZS(outfile[1]) = 1

\* the run is over: it ended, or an exception left bam_filter
Terminated == pc \in {"done", "error"}

\* C4: once the input is exhausted, or the pass over it ended in an error,
\* close() has been called on every criterion once, in configured order.
C4_EveryCriterionClosed ==
    (Terminated /\ err # "listing") =>
        closed = [i \in 1..Len(criteria) |-> i]

\* C5: every criterion's description renders, so the verbose listing does not
\* fail, every rejected record has its line in the failed log when one is
\* configured, and the run goes on.
C5_DescriptionRenders ==
    /\ err \notin {"listing", "log"}
    /\ failed_out # "None" => Len(failed_log) = Cardinality(Rejected)

----------------------------------------------------------------------------
(* The properties of the region criteria (SpecBED, SpecRegion).            *)

\* the ExcludeBED index the criterion under evaluation queries
Index == IF crit.c.kind = "IncludeBED" THEN crit.c.excl.regions ELSE crit.c.regions

\* C6: after construction, every region of the BED file is registered in
\* every bucket (chrom, b) with start / 100000 <= b <= end / 100000.
C6_RegionInEveryBin ==
    \A i \in 1..Len(crit.lines) :
        LET l == crit.lines[i]
        IN \A b \in (l.start \div BIN)..(l.end \div BIN) :
              /\ <<l.chrom, b>> \in DOMAIN Index
              /\ \E j \in 1..Len(Index[<<l.chrom, b>>]) :
                    Index[<<l.chrom, b>>][j] = <<l.start, l.end, l.strand>>

\* the bin widths the index could be built and queried with
BinSizes == {BIN \div 2, BIN, 2 * BIN, (MaxCoord + 1) * BIN}

\* the verdict of the criterion under evaluation were its bin width binsize
VerdictWithBin(read, binsize) ==
    LET excl == ExcludeBED_filter_bin(
                    ExcludeBED_init_bin(<<"a.bed">>, crit.lines, binsize), read, binsize)
    IN IF crit.c.kind = "IncludeBED" THEN ~excl ELSE excl

\* C7: the verdict of ExcludeBED (and of IncludeBED) for a record is the same
\* whatever the bin width the index is built and queried with.
C7_VerdictIndependentOfBin ==
    ev # <<>> => \A b \in BinSizes : VerdictWithBin(ev[1].read, b) = ev[1].ok

\* the read is mapped on the region's chromosome, on a strand the region
\* allows, and its start or its end lies within [start, end]
EndpointInRegion(read, chrom, start, end, strand) ==
    /\ ~is_unmapped(read)
    /\ getrname(read.rname) = chrom
    /\ ~(strand = "+" /\ is_reverse(read))
    /\ ~(strand = "-" /\ ~is_reverse(read))
    /\ \/ start <= read.pos /\ read.pos <= end
       \/ start <= read.aend /\ read.aend <= end

\* C8: a mapped record whose start or end lies within a region of the set
\* (same chromosome, allowed strand) fails ExcludeBED, whatever the bins the
\* region spans; likewise for ExcludeRegion and its region.
C8_EndpointInRegionFails ==
    /\ (ev # <<>> /\ crit.c.kind = "ExcludeBED") =>
          \A i \in 1..Len(crit.lines) :
              LET l == crit.lines[i]
              IN EndpointInRegion(ev[1].read, l.chrom, l.start, l.end, l.strand)
                    => ~ev[1].ok
    /\ (ev # <<>> /\ crit.c.kind = "ExcludeRegion") =>
          (EndpointInRegion(ev[1].read, crit.c.chrom, crit.c.start, crit.c.end, ".")
              => ~ev[1].ok)

----------------------------------------------------------------------------
(* The properties of the tag comparisons (SpecTag).                        *)

\* C9: for each of the five comparisons and every literal, a record that does
\* not carry the compared tag (the key not being MAPQ) fails the criterion.
C9_MissingTagFails ==
    (ev # <<>> /\ crit.c.tag # "MAPQ" /\ crit.c.tag \notin TagNames(ev[1].read))
        => ~ev[1].ok

----------------------------------------------------------------------------
(* The properties of the catalog-backed mismatch criteria (SpecMismatch).  *)

\* the variations of the read the catalog of the criterion holds
Catalogued(c, read) ==
    {i \in 1..Len(read.vars) :
        is_valid_variation(c.dbsnp, getrname(read.rname), read.vars[i])}

\* the tag list grew by one ZS tag holding n
ZSAppended(e, n) == e.after.tags = e.read.tags \o <<<<"ZS", n>>>>

\* C10 as stated: for a mapped record, a ZS tag holding the number of
\* catalogued matches is appended whenever there is at least one match,
\* whether the record passes or fails, and none is appended when there is none.
C10_ZSWheneverMatched ==
    (ev # <<>> /\ ~is_unmapped(ev[1].read)) =>
        LET n == Cardinality(Catalogued(crit.c, ev[1].read))
        IN IF n >= 1 THEN ZSAppended(ev[1], n)
           ELSE ev[1].after.tags = ev[1].read.tags

\* whether the call classifies the read's variations: MismatchRefDbSNP
\* always does, MismatchDbSNP only past its bound
Classifies(c, read) ==
    c.kind = "MismatchRefDbSNP" \/ read_calc_mismatches(read) > c.num

\* C10 as amended: for a mapped record, a ZS tag holding the number of
\* catalogued matches is appended exactly when the call classifies the
\* variations, at least one is catalogued and the record passes; a record
\* that fails, or has no match, is left as it was. The read changes in
\* nothing but its tags.
C10_ZSOnlyOnPass ==
    ev # <<>> =>
        LET e == ev[1]
            n == Cardinality(Catalogued(crit.c, e.read))
        IN /\ [e.after EXCEPT !.tags = <<>>] = [e.read EXCEPT !.tags = <<>>]
           /\ IF ~is_unmapped(e.read) /\ e.ok /\ Classifies(crit.c, e.read) /\ n >= 1
              THEN ZSAppended(e, n)
              ELSE e.after.tags = e.read.tags

\* a record with a catalogued and an uncatalogued variation fails the bound 0
\* and gets no ZS tag
C10_Witness ==
    /\ ev # <<>>
    /\ ~is_unmapped(ev[1].read)
    /\ Cardinality(Catalogued(crit.c, ev[1].read)) = 1
    /\ Len(ev[1].read.vars) = 2
    /\ ~ev[1].ok
    /\ ev[1].after.tags = ev[1].read.tags

----------------------------------------------------------------------------
(* The properties of IncludeRegion (SpecIncludeRegion).                    *)

\* the ExcludeRegion built from the region of the instance called
OwnExclude == IncludeRegion_excludes[crit.self]

\* the verdict of a call that evaluates fresh, without _last
FreshVerdict(read) ==
    IncludeRegion_filter(IncludeRegion_excludes, <<>>, read, TRUE).ok

\* C11: every IncludeRegion verdict is the negation of the ExcludeRegion
\* verdict for the same region and record; a record identical to the one
\* evaluated just before it gets the verdict that one got; and the verdict
\* with the last-record cache is the verdict of a fresh evaluation.
C11_IncludeIsNegatedExclude ==
    ev # <<>> =>
        /\ ev[1].ok = ~ExcludeRegion_filter(OwnExclude, ev[1].read)
        /\ (Len(ev) = 2 /\ AlignedRead_eq(ev[1].read, ev[2].read, TRUE))
              => ev[1].ok = ev[2].ok
        /\ ev[1].ok = FreshVerdict(ev[1].read)

\* (what does hold: a call that misses the cache, on the only instance
\* built, returns the negation of its ExcludeRegion's verdict)
NegatedExcludeWhenAloneAndFresh ==
    (/\ ev # <<>>
     /\ Len(IncludeRegion_excludes) = 1
     /\ (Len(ev) = 2 => ~AlignedRead_eq(ev[1].read, ev[2].read, TRUE)))
        => ev[1].ok = ~ExcludeRegion_filter(OwnExclude, ev[1].read)

\* the read is mapped on the region's chromosome, starts strictly before the
\* region and ends strictly after it
Covers(read, c) ==
    /\ ~is_unmapped(read)
    /\ getrname(read.rname) = c.chrom
    /\ read.pos < c.start
    /\ read.aend > c.end

\* C14: a mapped record that covers the whole region, with neither endpoint
\* inside it, passes the region's ExcludeRegion and fails the region's
\* IncludeRegion the first time it is evaluated.
C14_CoveringReadFailsInclude ==
    (ev # <<>> /\ Covers(ev[1].read, OwnExclude)) =>
        /\ ExcludeRegion_filter(OwnExclude, ev[1].read)
        /\ (Len(ev) = 1 => ~ev[1].ok)

\* (what does hold: the covering record passes ExcludeRegion, and fails an
\* IncludeRegion that is the only instance built and misses the cache)
CoveringReadWhenAloneAndFresh ==
    (ev # <<>> /\ Covers(ev[1].read, OwnExclude)) =>
        /\ ExcludeRegion_filter(OwnExclude, ev[1].read)
        /\ (/\ Len(IncludeRegion_excludes) = 1
            /\ (Len(ev) = 2 => ~AlignedRead_eq(ev[1].read, ev[2].read, TRUE)))
              => ~ev[1].ok

----------------------------------------------------------------------------
(* The properties of the length criteria (SpecLength).                     *)

\* C13: -maxlen val removes exactly the reads that are larger than val: a
\* read is removed if and only if its sequence length is greater than val,
\* so a read whose length equals val is kept.
C13_MaxLenRemovesLarger ==
    (ev # <<>> /\ crit.c.kind = "ReadMaxLength") =>
        (~ev[1].ok <=> ev[1].read.seqlen > crit.c.val)

\* (what does hold: a read is removed if and only if its sequence length is
\* val or more)
MaxLenRemovesAtLeast ==
    (ev # <<>> /\ crit.c.kind = "ReadMaxLength") =>
        (~ev[1].ok <=> ev[1].read.seqlen >= crit.c.val)

----------------------------------------------------------------------------
(* The properties of bam_tag (SpecBamTag).                                 *)

\* the processors of a kind in the chain
Configured(kind) == {j \in 1..Len(chain) : chain[j].kind = kind}

\* the suffix a record's identifier gains: the configured one, once
SuffixGained ==
    IF Configured("Suffix") = {} THEN ""
    ELSE chain[CHOOSE j \in Configured("Suffix") : TRUE].suffix

\* the strand tag a record gains: none when it is unmapped or no strand
\* tag is asked for, else one '-' for a reverse-strand record and one '+'
\* for any other
StrandTagGained(read) ==
    IF Configured("CufflinksXS") = {} \/ is_unmapped(read) THEN <<>>
    ELSE <<<<"XS:A", IF is_reverse(read) THEN "-" ELSE "+">>>>

\* the configured tag a record gains: exactly one, when one is asked for
TagGained ==
    IF Configured("Tag") = {} THEN <<>>
    ELSE LET c == chain[CHOOSE j \in Configured("Tag") : TRUE]
         IN <<<<c.key, c.value>>>>

\* C12: with at least one of suffix, strand tag and tag configured, every
\* record read is written exactly once, in input order, with its identifier
\* suffixed once, at most one strand tag and exactly one configured tag
\* appended after the tags it had; an unmapped record gains no strand tag, a
\* mapped one '+' or '-' by its reverse-strand flag; no record is dropped,
\* and the renamed file holds all that was written.
C12_EveryRecordTransformedOnce ==
    /\ Len(outbam) = Len(bamfile)
    /\ \A i \in 1..Len(bamfile) :
          /\ chain # <<>>
          /\ outbam[i] =
                [bamfile[i] EXCEPT
                    !.qname = bamfile[i].qname \o SuffixGained,
                    !.tags = bamfile[i].tags \o StrandTagGained(bamfile[i])
                                \o TagGained]
    /\ tag_pc = "done" => outfname = <<outbam>>
    /\ tag_pc # "done" => outfname = <<>>

\* suffix, strand tag and tag are all configured, and the stream ended after
\* an unmapped record and a reverse-strand one
C12_Witness ==
    /\ tag_pc = "done"
    /\ Len(chain) = 3
    /\ Len(outbam) = 2
    /\ is_unmapped(bamfile[1])
    /\ ~is_unmapped(bamfile[2]) /\ is_reverse(bamfile[2])
    /\ outbam[2].qname # bamfile[2].qname

====
